---- MODULE Spec2Model ----
(***************************************************************************)
(* Sparse-set entity/component store: SparseSet<T>, World (entity          *)
(* allocator, per-kind storages, DestroyEntity) and the Query overloads.   *)
(* Array indices are 0-based in the source; sequences here are 1-based,    *)
(* so position i of an Array is element i + 1 of the sequence.             *)
(***************************************************************************)
EXTENDS Integers, Sequences, FiniteSets, TLC

(* ------------------------------ bounds --------------------------------- *)
\* scaled stand-in for "const int MAX_ENTITIES = 10000"
MAX_ENTITIES == 3
\* scaled stand-in for the first capacity (64) chosen by Grow
InitialCapacity == 2
\* number of component calls (AddX, RemoveX, DestroyEntity, a pass of the
\* spawn loop) explored from the fresh World
MaxOps == 2

(* ----------------------------- constants ------------------------------- *)
NULL_ENTITY == 0
INVALID_INDEX == MAX_ENTITIES + 1
\* T{} : the value Array<T>(n) fills fresh slots with
DefaultValue == "T{}"
\* nullptr, as returned by Get
NullPtr == -1

\* component values are opaque to the store: two values callers pass
Values == {"A", "B"}
\* CreateEntity is explored up to one call past the first exhausted call
MaxCreates == MAX_ENTITIES + 1
\* entity arguments handed to the operations: every id below MAX_ENTITIES
\* (the null entity included) and one id that is out of range
EntityArgs == 0..MAX_ENTITIES

\* the seven component types, in the order of the GetSparseSet
\* specialisations
TypeSeq == <<"Transform", "Physics", "Sprite", "Animation",
             "Collider", "CollisionState", "Player">>
Types == {TypeSeq[i] : i \in 1..Len(TypeSeq)}
\* the seven SparseSet members of World
Fields == {"transforms", "sprites", "animations", "physics",
           "colliders", "collisionStates", "players"}

VARIABLES nextEntity, sets, last, created, destroyed, ops, q, sys, hist
vars == <<nextEntity, sets, last, created, destroyed, ops, q, sys, hist>>

(* ---------------------------- SparseSet<T> ----------------------------- *)
\* SparseSet() : sparse(MAX_ENTITIES) filled with INVALID_INDEX, dense(0),
\* data(0), count(0), capacity(0)
NewSparseSet == [sparse   |-> [e \in 0..(MAX_ENTITIES - 1) |-> INVALID_INDEX],
                 dense    |-> <<>>,
                 data     |-> <<>>,
                 count    |-> 0,
                 capacity |-> 0]

Has(s, entity) ==
    IF entity >= MAX_ENTITIES
    THEN FALSE
    ELSE LET index == s.sparse[entity]
         IN  index < s.count /\ s.dense[index + 1] = entity

Count(s) == s.count

GetEntity(s, index) == s.dense[index + 1]

GetData(s, index) == s.data[index + 1]

\* Get returns a pointer into data; the pointer is modelled by the position
Get(s, entity) ==
    IF ~Has(s, entity) THEN NullPtr ELSE s.sparse[entity]

\* Grow that allocates the new arrays and copies nothing
GrowDropsData(s) ==
    LET newCapacity == IF s.capacity = 0 THEN InitialCapacity ELSE s.capacity * 2
    IN  [s EXCEPT !.dense = [i \in 1..newCapacity |-> 0],
                  !.data = [i \in 1..newCapacity |-> DefaultValue],
                  !.capacity = newCapacity]

\* Grow that triples a capacity that is not 0
GrowTriples(s) ==
    LET newCapacity == IF s.capacity = 0 THEN InitialCapacity ELSE s.capacity * 3
        newDense == [i \in 1..newCapacity |->
                        IF i <= s.count THEN s.dense[i] ELSE 0]
        newData  == [i \in 1..newCapacity |->
                        IF i <= s.count THEN s.data[i] ELSE DefaultValue]
    IN  [s EXCEPT !.dense = newDense, !.data = newData, !.capacity = newCapacity]

Grow(s) ==
    LET newCapacity == IF s.capacity = 0 THEN InitialCapacity ELSE s.capacity * 2
        newDense == [i \in 1..newCapacity |->
                        IF i <= s.count THEN s.dense[i] ELSE 0]
        newData  == [i \in 1..newCapacity |->
                        IF i <= s.count THEN s.data[i] ELSE DefaultValue]
    IN  [s EXCEPT !.dense = newDense, !.data = newData, !.capacity = newCapacity]

\* Add that leaves the value of an entity already present as it was
AddKeepsOld(s, entity, component) ==
    IF entity >= MAX_ENTITIES
    THEN s
    ELSE IF Has(s, entity)
         THEN s
         ELSE LET g == IF s.count >= s.capacity THEN Grow(s) ELSE s
              IN  [g EXCEPT !.sparse[entity] = g.count,
                            !.dense[g.count + 1] = entity,
                            !.data[g.count + 1] = component,
                            !.count = g.count + 1]

\* Add that tests entity > MAX_ENTITIES
AddGuardOffByOne(s, entity, component) ==
    IF entity > MAX_ENTITIES
    THEN s
    ELSE IF Has(s, entity)
         THEN [s EXCEPT !.data[s.sparse[entity] + 1] = component]
         ELSE LET g == IF s.count >= s.capacity THEN Grow(s) ELSE s
              IN  [g EXCEPT !.dense[g.count + 1] = entity,
                            !.data[g.count + 1] = component,
                            !.count = g.count + 1]

\* Add that grows a full storage before it looks for the entity
AddGrowsFirst(s, entity, component) ==
    IF entity >= MAX_ENTITIES
    THEN s
    ELSE LET g == IF s.count >= s.capacity THEN Grow(s) ELSE s
         IN  IF Has(g, entity)
             THEN [g EXCEPT !.data[g.sparse[entity] + 1] = component]
             ELSE [g EXCEPT !.sparse[entity] = g.count,
                            !.dense[g.count + 1] = entity,
                            !.data[g.count + 1] = component,
                            !.count = g.count + 1]

\* Add that appends without looking for the entity
AddAlwaysAppends(s, entity, component) ==
    IF entity >= MAX_ENTITIES
    THEN s
    ELSE LET g == IF s.count >= s.capacity THEN Grow(s) ELSE s
         IN  [g EXCEPT !.sparse[entity] = g.count,
                       !.dense[g.count + 1] = entity,
                       !.data[g.count + 1] = component,
                       !.count = g.count + 1]

Add(s, entity, component) ==
    IF entity >= MAX_ENTITIES
    THEN s
    ELSE IF Has(s, entity)
         THEN [s EXCEPT !.data[s.sparse[entity] + 1] = component]
         ELSE LET g == IF s.count >= s.capacity THEN Grow(s) ELSE s
              IN  [g EXCEPT !.sparse[entity] = g.count,
                            !.dense[g.count + 1] = entity,
                            !.data[g.count + 1] = component,
                            !.count = g.count + 1]

\* Grow that moves each new array into its member as soon as it is built
TryGrowSwapsEarly(s, okDense, okData) ==
    IF ~okDense
    THEN [set |-> s, threw |-> "newDense"]
    ELSE IF ~okData
         THEN [set |-> [s EXCEPT !.dense = Grow(s).dense], threw |-> "newData"]
         ELSE [set |-> Grow(s), threw |-> "none"]

\* Grow when an allocation can fail.  Array<Entity> newDense(newCapacity)
\* and Array<T> newData(newCapacity) each run new Datatype[p_size], which
\* throws std::bad_alloc; the throw leaves Grow before the loop and before
\* dense, data and capacity are assigned (okDense, okData: the allocation
\* succeeds).
TryGrow(s, okDense, okData) ==
    IF ~okDense
    THEN [set |-> s, threw |-> "newDense"]
    ELSE IF ~okData
         THEN [set |-> s, threw |-> "newData"]
         ELSE [set |-> Grow(s), threw |-> "none"]

\* Add when the allocations of Grow can fail: the exception passes through
\* Add, so the four statements after Grow() do not run
TryAdd(s, entity, component, okDense, okData) ==
    IF entity >= MAX_ENTITIES
    THEN [set |-> s, threw |-> "none"]
    ELSE IF Has(s, entity)
         THEN [set |-> [s EXCEPT !.data[s.sparse[entity] + 1] = component],
               threw |-> "none"]
         ELSE LET r == IF s.count >= s.capacity
                       THEN TryGrow(s, okDense, okData)
                       ELSE [set |-> s, threw |-> "none"]
                  g == r.set
              IN  IF r.threw # "none"
                  THEN r
                  ELSE [set |-> [g EXCEPT !.sparse[entity] = g.count,
                                          !.dense[g.count + 1] = entity,
                                          !.data[g.count + 1] = component,
                                          !.count = g.count + 1],
                        threw |-> "none"]

\* Remove that forgets sparse[lastEntity] = index
RemoveStaleSparse(s, entity) ==
    IF ~Has(s, entity)
    THEN s
    ELSE LET index == s.sparse[entity]
             lastIndex == s.count - 1
             m == IF index # lastIndex
                  THEN LET lastEntity == s.dense[lastIndex + 1]
                       IN  [s EXCEPT !.dense[index + 1] = lastEntity,
                                     !.data[index + 1] = s.data[lastIndex + 1]]
                  ELSE s
         IN  [m EXCEPT !.sparse[entity] = INVALID_INDEX,
                       !.count = s.count - 1]

\* Remove that moves the last entity but not its value
RemoveLeavesData(s, entity) ==
    IF ~Has(s, entity)
    THEN s
    ELSE LET index == s.sparse[entity]
             lastIndex == s.count - 1
             m == IF index # lastIndex
                  THEN LET lastEntity == s.dense[lastIndex + 1]
                       IN  [s EXCEPT !.dense[index + 1] = lastEntity,
                                     !.sparse[lastEntity] = index]
                  ELSE s
         IN  [m EXCEPT !.sparse[entity] = INVALID_INDEX,
                       !.count = s.count - 1]

\* Remove that closes the gap by shifting the tail down one position
RemoveShifts(s, entity) ==
    IF ~Has(s, entity)
    THEN s
    ELSE LET index == s.sparse[entity]
         IN  [s EXCEPT
                !.dense = [i \in 1..s.capacity |->
                              IF i > index /\ i < s.count THEN s.dense[i + 1]
                              ELSE s.dense[i]],
                !.data = [i \in 1..s.capacity |->
                              IF i > index /\ i < s.count THEN s.data[i + 1]
                              ELSE s.data[i]],
                !.sparse = [e \in 0..(MAX_ENTITIES - 1) |->
                              IF e = entity THEN INVALID_INDEX
                              ELSE IF s.sparse[e] # INVALID_INDEX /\ s.sparse[e] > index
                                   THEN s.sparse[e] - 1
                                   ELSE s.sparse[e]],
                !.count = s.count - 1]

\* Remove that leaves sparse[entity] as it is
RemoveKeepsSparse(s, entity) ==
    IF ~Has(s, entity)
    THEN s
    ELSE LET index == s.sparse[entity]
             lastIndex == s.count - 1
             m == IF index # lastIndex
                  THEN LET lastEntity == s.dense[lastIndex + 1]
                       IN  [s EXCEPT !.dense[index + 1] = lastEntity,
                                     !.data[index + 1] = s.data[lastIndex + 1],
                                     !.sparse[lastEntity] = index]
                  ELSE s
         IN  [m EXCEPT !.count = s.count - 1]

Remove(s, entity) ==
    IF ~Has(s, entity)
    THEN s
    ELSE LET index == s.sparse[entity]
             lastIndex == s.count - 1
             m == IF index # lastIndex
                  THEN LET lastEntity == s.dense[lastIndex + 1]
                       IN  [s EXCEPT !.dense[index + 1] = lastEntity,
                                     !.data[index + 1] = s.data[lastIndex + 1],
                                     !.sparse[lastEntity] = index]
                  ELSE s
         IN  [m EXCEPT !.sparse[entity] = INVALID_INDEX,
                       !.count = s.count - 1]

\* the loop of Clear: sparse[dense[i]] = INVALID_INDEX for i = 0..count-1
RECURSIVE ClearLoop(_, _)
ClearLoop(s, i) ==
    IF i < s.count
    THEN ClearLoop([s EXCEPT !.sparse[s.dense[i + 1]] = INVALID_INDEX], i + 1)
    ELSE s

\* Clear that only sets count to 0
ClearCountOnly(s) == [s EXCEPT !.count = 0]

Clear(s) == [ClearLoop(s, 0) EXCEPT !.count = 0]

\* the array subscripts each operation evaluates, as the code evaluates
\* them: arr[index] on an Array constructed with size elements (sparse has
\* MAX_ENTITIES elements, dense and data have capacity elements)
Acc(arr, index, size) == [arr |-> arr, index |-> index, size |-> size]

\* Has that evaluates dense[index] == entity whatever index < count gives
HasAccessesNoShortCircuit(s, entity) ==
    IF entity >= MAX_ENTITIES
    THEN {}
    ELSE {Acc("sparse", entity, MAX_ENTITIES),
          Acc("dense", s.sparse[entity], s.capacity)}

\* Has: sparse[entity], then dense[index] only when index < count
HasAccesses(s, entity) ==
    IF entity >= MAX_ENTITIES
    THEN {}
    ELSE {Acc("sparse", entity, MAX_ENTITIES)}
             \cup (IF s.sparse[entity] < s.count
                   THEN {Acc("dense", s.sparse[entity], s.capacity)}
                   ELSE {})

\* Get: Has, then data[sparse[entity]]
GetAccesses(s, entity) ==
    HasAccesses(s, entity)
        \cup (IF Has(s, entity)
              THEN {Acc("sparse", entity, MAX_ENTITIES),
                    Acc("data", s.sparse[entity], s.capacity)}
              ELSE {})

\* Grow: newDense[i] = dense[i]; newData[i] = data[i] for i < count
GrowAccesses(s) ==
    LET newCapacity == IF s.capacity = 0 THEN InitialCapacity ELSE s.capacity * 2
    IN  UNION {{Acc("dense", i, s.capacity), Acc("data", i, s.capacity),
                Acc("newDense", i, newCapacity), Acc("newData", i, newCapacity)} :
               i \in 0..(s.count - 1)}

\* Add: Has; then data[sparse[entity]], or Grow and sparse[entity],
\* dense[count], data[count]
AddAccesses(s, entity) ==
    IF entity >= MAX_ENTITIES
    THEN {}
    ELSE HasAccesses(s, entity)
             \cup (IF Has(s, entity)
                   THEN {Acc("sparse", entity, MAX_ENTITIES),
                         Acc("data", s.sparse[entity], s.capacity)}
                   ELSE LET g == IF s.count >= s.capacity THEN Grow(s) ELSE s
                        IN  (IF s.count >= s.capacity THEN GrowAccesses(s) ELSE {})
                                \cup {Acc("sparse", entity, MAX_ENTITIES),
                                      Acc("dense", g.count, g.capacity),
                                      Acc("data", g.count, g.capacity)})

\* Remove: Has; then sparse[entity] and, when index != lastIndex,
\* dense[lastIndex], dense[index], data[index], data[lastIndex],
\* sparse[lastEntity]
RemoveAccesses(s, entity) ==
    HasAccesses(s, entity)
        \cup (IF ~Has(s, entity)
              THEN {}
              ELSE LET index == s.sparse[entity]
                       lastIndex == s.count - 1
                   IN  {Acc("sparse", entity, MAX_ENTITIES)}
                           \cup (IF index # lastIndex
                                 THEN {Acc("dense", lastIndex, s.capacity),
                                       Acc("dense", index, s.capacity),
                                       Acc("data", index, s.capacity),
                                       Acc("data", lastIndex, s.capacity),
                                       Acc("sparse", s.dense[lastIndex + 1],
                                           MAX_ENTITIES)}
                                 ELSE {}))

\* Clear: sparse[dense[i]] for i < count
ClearAccesses(s) ==
    UNION {{Acc("dense", i, s.capacity),
            Acc("sparse", s.dense[i + 1], MAX_ENTITIES)} : i \in 0..(s.count - 1)}

(* -------------------------------- World -------------------------------- *)
\* the member each AddX / GetX / RemoveX / HasX forwards to
StorageOf(T) ==
    CASE T = "Transform"      -> "transforms"
      [] T = "Sprite"         -> "sprites"
      [] T = "Animation"      -> "animations"
      [] T = "Physics"        -> "physics"
      [] T = "Collider"       -> "colliders"
      [] T = "CollisionState" -> "collisionStates"
      [] T = "Player"         -> "players"

\* GetSparseSet with the Transform and Physics specialisations exchanged
GetSparseSetSwapped(T) ==
    CASE T = "Transform"      -> "physics"
      [] T = "Physics"        -> "transforms"
      [] T = "Sprite"         -> "sprites"
      [] T = "Animation"      -> "animations"
      [] T = "Collider"       -> "colliders"
      [] T = "CollisionState" -> "collisionStates"
      [] T = "Player"         -> "players"

\* template<> SparseSet<T>* World::GetSparseSet<T>() : the member it returns
GetSparseSet(T) ==
    CASE T = "Transform"      -> "transforms"
      [] T = "Physics"        -> "physics"
      [] T = "Sprite"         -> "sprites"
      [] T = "Animation"      -> "animations"
      [] T = "Collider"       -> "colliders"
      [] T = "CollisionState" -> "collisionStates"
      [] T = "Player"         -> "players"

\* CreateEntity that tests nextEntity > MAX_ENTITIES
CreateEntityOffByOne(n) ==
    IF n > MAX_ENTITIES
    THEN [ret |-> NULL_ENTITY, next |-> n]
    ELSE [ret |-> n, next |-> n + 1]

\* CreateEntity that returns ++nextEntity
CreateEntityPreIncrement(n) ==
    IF n >= MAX_ENTITIES
    THEN [ret |-> NULL_ENTITY, next |-> n]
    ELSE [ret |-> n + 1, next |-> n + 1]

\* CreateEntity on counter n : the value returned and the counter afterwards
CreateEntity(n) ==
    IF n >= MAX_ENTITIES
    THEN [ret |-> NULL_ENTITY, next |-> n]
    ELSE [ret |-> n, next |-> n + 1]

\* DestroyEntity that leaves out players.Remove(entity)
DestroyEntitySkipsPlayers(ss, entity) ==
    [f \in Fields |-> IF f = "players" THEN ss[f] ELSE Remove(ss[f], entity)]

\* DestroyEntity : Remove on each of the seven members
DestroyEntity(ss, entity) ==
    [f \in Fields |-> Remove(ss[f], entity)]

HasX(T, entity) == Has(sets[StorageOf(T)], entity)

GetX(T, entity) == Get(sets[StorageOf(T)], entity)

\* no Query in progress, no result kept
IdleQ == [pc |-> "idle", types |-> <<>>, drive |-> 0, i |-> 0, visits |-> <<>>]

\* what the last call was and what it met: had = the entity was in the
\* storage before the call, idx = its dense position then, cnt = the count
NoCall == [op |-> "none", entity |-> 0, value |-> DefaultValue,
           had |-> FALSE, idx |-> 0, cnt |-> 0]

Met(op, T, entity, value) ==
    LET s == sets[StorageOf(T)]
    IN  [op |-> op, entity |-> entity, value |-> value,
         had |-> Has(s, entity),
         idx |-> IF Has(s, entity) THEN s.sparse[entity] ELSE 0,
         cnt |-> s.count]

\* what the visitors of the queries did so far: written[T][e] is the value
\* a visitor last stored through its reference to e's T component (NoValue:
\* none yet), seen the values the latest call of a visitor found behind its
\* references; of the running (or last) Query, atCall is the live dense
\* array of the driving set when Query was entered and examined the
\* entities its loop has read by GetEntity(i), and probed the Get calls its
\* latest pass made, in order: the position j of the probed type in the
\* type list and whether Get found the entity
NoValue == "none"

NoHist == [written  |-> [T \in Types |-> [e \in 0..(MAX_ENTITIES - 1) |-> NoValue]],
           seen     |-> <<>>,
           atCall   |-> <<>>,
           examined |-> <<>>,
           probed   |-> <<>>]

Init ==
    /\ nextEntity = 1
    /\ sets = [f \in Fields |-> NewSparseSet]
    /\ last = NoCall
    /\ created = <<>>
    /\ destroyed = {}
    /\ ops = 0
    /\ q = IdleQ
    /\ sys = <<>>
    /\ hist = NoHist

\* World::CreateEntity()
DoCreateEntity ==
    /\ q.pc # "loop"
    /\ nextEntity' = CreateEntity(nextEntity).next
    /\ created' = Append(created, CreateEntity(nextEntity).ret)
    /\ last' = [NoCall EXCEPT !.op = "CreateEntity",
                              !.entity = CreateEntity(nextEntity).ret]
    /\ q' = IdleQ
    /\ UNCHANGED <<sets, destroyed>>

\* World::AddX(entity, component)
AddX(T, entity, component) ==
    /\ q.pc # "loop"
    /\ sets' = [sets EXCEPT ![StorageOf(T)] = Add(@, entity, component)]
    /\ q' = IdleQ
    /\ UNCHANGED <<nextEntity, created, destroyed>>

DoAdd(T, entity, component) ==
    /\ AddX(T, entity, component)
    /\ last' = Met("Add", T, entity, component)

\* World::AddX(entity, component) when memory can run out; last.op tells
\* whether the call returned or which allocation threw
DoTryAdd(T, entity, component, okDense, okData) ==
    LET r == TryAdd(sets[StorageOf(T)], entity, component, okDense, okData)
    IN  /\ q.pc # "loop"
        /\ sets' = [sets EXCEPT ![StorageOf(T)] = r.set]
        /\ last' = Met(CASE r.threw = "none" -> "Add"
                          [] r.threw = "newDense" -> "AddThrewDense"
                          [] r.threw = "newData" -> "AddThrewData",
                       T, entity, component)
        /\ q' = IdleQ
        /\ UNCHANGED <<nextEntity, created, destroyed>>

\* World::RemoveX(entity)
RemoveX(T, entity) ==
    /\ q.pc # "loop"
    /\ sets' = [sets EXCEPT ![StorageOf(T)] = Remove(@, entity)]
    /\ q' = IdleQ
    /\ UNCHANGED <<nextEntity, created, destroyed>>

DoRemove(T, entity) ==
    /\ RemoveX(T, entity)
    /\ last' = Met("Remove", T, entity, DefaultValue)

\* GetSparseSet<T>()->Clear()
DoClear(T) ==
    /\ q.pc # "loop"
    /\ sets' = [sets EXCEPT ![GetSparseSet(T)] = Clear(@)]
    /\ last' = [NoCall EXCEPT !.op = "Clear",
                              !.cnt = sets[GetSparseSet(T)].count]
    /\ q' = IdleQ
    /\ UNCHANGED <<nextEntity, created, destroyed>>

\* World::DestroyEntity(entity)
DoDestroyEntity(entity) ==
    /\ q.pc # "loop"
    /\ sets' = DestroyEntity(sets, entity)
    /\ last' = [NoCall EXCEPT !.op = "DestroyEntity", !.entity = entity,
                              !.had = \E T \in Types : HasX(T, entity),
                              !.cnt = Cardinality({T \in Types : HasX(T, entity)})]
    /\ destroyed' = destroyed \cup {entity}
    /\ q' = IdleQ
    /\ UNCHANGED <<nextEntity, created>>

\* one pass of the spawn loop of main: box = CreateEntity();
\* AddTransform(box, t); AddPhysics(box, p), the return value unchecked
DoSpawnBox(t, p) ==
    LET box == CreateEntity(nextEntity).ret
    IN  /\ q.pc # "loop"
        /\ nextEntity' = CreateEntity(nextEntity).next
        /\ created' = Append(created, box)
        /\ sets' = [sets EXCEPT
                       ![StorageOf("Transform")] = Add(@, box, t),
                       ![StorageOf("Physics")] = Add(@, box, p)]
        /\ last' = [NoCall EXCEPT !.op = "SpawnBox", !.entity = box,
                                  !.had = HasX("Transform", box)]
        /\ q' = IdleQ
        /\ UNCHANGED destroyed

\* what GetEntity(index) / GetData(index) can hand back.  dense[index] and
\* data[index] are Array::operator[] with no test in SparseSet and, outside
\* _DEBUG, none in Array: inside the allocation the slot's content comes
\* back, live or not; outside it the read is undefined, and either nothing
\* comes back (the call faults) or whatever lies there does.
GetEntityOutcomes(s, index) ==
    IF index >= 0 /\ index < s.capacity
    THEN {[slot |-> TRUE, val |-> GetEntity(s, index)]}
    ELSE {[slot |-> FALSE, val |-> 0]}
             \cup {[slot |-> TRUE, val |-> e] : e \in EntityArgs}

GetDataOutcomes(s, index) ==
    IF index >= 0 /\ index < s.capacity
    THEN {[slot |-> TRUE, val |-> GetData(s, index)]}
    ELSE {[slot |-> FALSE, val |-> DefaultValue]}
             \cup {[slot |-> TRUE, val |-> v] : v \in Values \cup {DefaultValue}}

\* GetSparseSet<T>()->GetEntity(index), any index
DoGetEntity(T, index) ==
    /\ q.pc # "loop"
    /\ \E r \in GetEntityOutcomes(sets[GetSparseSet(T)], index) :
          last' = [NoCall EXCEPT !.op = "GetEntity", !.idx = index,
                                 !.cnt = sets[GetSparseSet(T)].count,
                                 !.had = r.slot, !.entity = r.val]
    /\ q' = IdleQ
    /\ UNCHANGED <<nextEntity, sets, created, destroyed>>

\* GetSparseSet<T>()->GetData(index), any index
DoGetData(T, index) ==
    /\ q.pc # "loop"
    /\ \E r \in GetDataOutcomes(sets[GetSparseSet(T)], index) :
          last' = [NoCall EXCEPT !.op = "GetData", !.idx = index,
                                 !.cnt = sets[GetSparseSet(T)].count,
                                 !.had = r.slot, !.value = r.val]
    /\ q' = IdleQ
    /\ UNCHANGED <<nextEntity, sets, created, destroyed>>

(* -------------------------------- Query -------------------------------- *)
\* the type lists Query is instantiated with: Query<T1> .. Query<T1..T6> on
\* the leading types, and the two-type Query in both orders
QueryTypes ==
    {SubSeq(TypeSeq, 1, n) : n \in 1..6} \cup {<<"Physics", "Transform">>}

\* every overload runs over the smaller of its first two sets
DrivingSmaller(ss, types) ==
    IF Len(types) >= 2
       /\ ~(Count(ss[GetSparseSet(types[1])]) <= Count(ss[GetSparseSet(types[2])]))
    THEN 2
    ELSE 1

\* Query<T1,T2> that tests set1->Count() < set2->Count()
DrivingTieSecond(ss, types) ==
    IF Len(types) = 2
       /\ ~(Count(ss[GetSparseSet(types[1])]) < Count(ss[GetSparseSet(types[2])]))
    THEN 2
    ELSE 1

\* Query<T1,T2> picks the set its loop runs over once, before the loop:
\* set1 when set1->Count() <= set2->Count(), else set2; every other
\* overload runs over set1
Driving(ss, types) ==
    IF Len(types) = 2
       /\ ~(Count(ss[GetSparseSet(types[1])]) <= Count(ss[GetSparseSet(types[2])]))
    THEN 2
    ELSE 1

\* loop body that hands func the first slot of the driving set every time
RefsFirstSlot(ss, types, drive, i) ==
    LET entity == GetEntity(ss[GetSparseSet(types[drive])], i)
    IN  [j \in 1..Len(types) |->
            IF j = drive THEN 0 ELSE Get(ss[GetSparseSet(types[j])], entity)]

\* one pass of the loop body at position i: the entity read from the driving
\* set and, per declared type, the pointer handed to func (GetData(i) for
\* the driving set, Get(entity) for the others)
Refs(ss, types, drive, i) ==
    LET entity == GetEntity(ss[GetSparseSet(types[drive])], i)
    IN  [j \in 1..Len(types) |->
            IF j = drive THEN i ELSE Get(ss[GetSparseSet(types[j])], entity)]

\* the calls of func one pass makes: one call when every pointer is
\* non-null, none otherwise
LoopBodyNoTest(ss, types, drive, i) ==
    <<[entity |-> GetEntity(ss[GetSparseSet(types[drive])], i),
       refs |-> Refs(ss, types, drive, i)]>>

LoopBody(ss, types, drive, i) ==
    LET refs == Refs(ss, types, drive, i)
    IN  IF \A j \in 1..Len(types) : refs[j] # NullPtr
        THEN <<[entity |-> GetEntity(ss[GetSparseSet(types[drive])], i),
                refs |-> refs]>>
        ELSE <<>>

\* Query<...>(func) is entered: the sets are looked up, the branch chosen
QueryBegin(types) ==
    /\ q.pc # "loop"
    /\ q' = [pc |-> "loop", types |-> types, drive |-> Driving(sets, types),
             i |-> 0, visits |-> <<>>]
    /\ last' = [NoCall EXCEPT !.op = "Query"]
    /\ UNCHANGED <<nextEntity, sets, created, destroyed, ops>>

\* one iteration of the for loop (func reads its arguments only), or the
\* exit of the loop when i < Count() fails
QueryStep ==
    /\ q.pc = "loop"
    /\ LET drv == sets[GetSparseSet(q.types[q.drive])]
       IN  IF q.i < Count(drv)
           THEN q' = [q EXCEPT
                        !.i = q.i + 1,
                        !.visits = @ \o LoopBody(sets, q.types, q.drive, q.i)]
           ELSE q' = [q EXCEPT !.pc = "done"]
    /\ UNCHANGED <<nextEntity, sets, last, created, destroyed, ops>>

\* the set the for loop runs over: its Count() bounds the loop and its
\* GetEntity(i) names the entity, in the branch taken when Query was entered
DrivingSetRechosen(ss, types, drive) ==
    ss[GetSparseSet(types[Driving(ss, types)])]

DrivingSet(ss, types, drive) == ss[GetSparseSet(types[drive])]

\* the end of one pass of the loop: func was called as body says (once or
\* not at all) and i++ runs
AdvanceOnCall(qq, body) ==
    [qq EXCEPT !.i = IF body = <<>> THEN qq.i ELSE qq.i + 1,
               !.visits = @ \o body]

\* a loop that steps over every second position
AdvanceSkips(qq, body) ==
    [qq EXCEPT !.i = qq.i + 2, !.visits = @ \o body]

Advance(qq, body) ==
    [qq EXCEPT !.i = qq.i + 1, !.visits = @ \o body]

\* what a visitor does when it is called.  "read": it only reads.
\* "write": it assigns v through its references to the types at the
\* positions W of the type list.  "add" / "remove": it calls
\* world.AddX(e, v) / world.RemoveX(e) for a type T.
ReadAct == [kind |-> "read", W |-> {}, T |-> "Player", e |-> 0, v |-> "A"]

WriteActs(types) ==
    {[ReadAct EXCEPT !.kind = "write", !.W = W, !.v = "B"] :
        W \in (SUBSET (1..Len(types))) \ {{}}}

\* the types a visitor that keeps to the contract of Query may add or
\* remove: the system's own types, the driving type excepted
MutableTypes(types, drive) ==
    {types[j] : j \in 1..Len(types)} \ {types[drive]}

MutateActs(types, drive) ==
    {[ReadAct EXCEPT !.kind = k, !.T = T, !.e = e] :
        k \in {"add", "remove"}, T \in MutableTypes(types, drive),
        e \in 0..(MAX_ENTITIES - 1)}

\* func receives copies of the components, not references
VisitorByValue(ss, types, visit, act) ==
    CASE act.kind = "read"   -> ss
      [] act.kind = "write"  -> ss
      [] act.kind = "add"    ->
            [ss EXCEPT ![StorageOf(act.T)] = Add(@, act.e, act.v)]
      [] act.kind = "remove" ->
            [ss EXCEPT ![StorageOf(act.T)] = Remove(@, act.e)]

\* the sets after func(entity, refs...) ran as act says.  A reference is a
\* position in the data array of its set (T& / *comp), so a write lands in
\* the slot the reference names
Visitor(ss, types, visit, act) ==
    CASE act.kind = "read"   -> ss
      [] act.kind = "write"  ->
            [f \in Fields |->
                IF \E j \in act.W : GetSparseSet(types[j]) = f
                THEN LET j == CHOOSE k \in act.W : GetSparseSet(types[k]) = f
                     IN  [ss[f] EXCEPT !.data[visit.refs[j] + 1] = act.v]
                ELSE ss[f]]
      [] act.kind = "add"    ->
            [ss EXCEPT ![StorageOf(act.T)] = Add(@, act.e, act.v)]
      [] act.kind = "remove" ->
            [ss EXCEPT ![StorageOf(act.T)] = Remove(@, act.e)]

\* the Get calls of one pass of the loop at position i, in the order the
\* code makes them.  Query<T1,T2> probes the set it does not run over; the
\* overloads for three to six types assign comp2 = set2->Get(entity),
\* comp3 = set3->Get(entity), ... one after the other and test
\* comp2 && comp3 && ... only afterwards
Probes(ss, types, drive, i) ==
    LET entity == GetEntity(ss[GetSparseSet(types[drive])], i)
        probe(j) == [j |-> j,
                     found |-> Get(ss[GetSparseSet(types[j])], entity) # NullPtr]
    IN  IF Len(types) = 1 THEN <<>>
        ELSE IF Len(types) = 2 THEN <<probe(3 - drive)>>
        ELSE [k \in 1..(Len(types) - 1) |-> probe(k + 1)]

\* the values func finds behind its references when it is called
Seen(ss, types, visit) ==
    [j \in 1..Len(types) |-> GetData(ss[GetSparseSet(types[j])], visit.refs[j])]

\* Query<...>(func) is entered: as QueryBegin, and the driving set's live
\* dense array at this moment is noted
VisitBegin(types) ==
    /\ QueryBegin(types)
    /\ LET drv == DrivingSet(sets, types, Driving(sets, types))
       IN  hist' = [hist EXCEPT !.seen = <<>>,
                                !.atCall = SubSeq(drv.dense, 1, drv.count),
                                !.examined = <<>>,
                                !.probed = <<>>]

\* the visitor removes components of the driving type, from any entity
DropActs(types, drive) ==
    {[ReadAct EXCEPT !.kind = "remove", !.T = types[drive], !.e = e] :
        e \in 0..(MAX_ENTITIES - 1)}

\* a loop whose bound is Count() as it was when Query was entered
LoopBoundAtEntry(drv, h) == Len(h.atCall)

\* the bound of the for loop, i < set->Count(): Count() is called anew in
\* every evaluation of the loop condition
LoopBound(drv, h) == Count(drv)

\* one iteration of the for loop with a visitor that acts as act when it is
\* called, or the exit of the loop when i < Count() fails
VisitStep(act) ==
    /\ q.pc = "loop"
    /\ LET drv == DrivingSet(sets, q.types, q.drive)
       IN  IF q.i < LoopBound(drv, hist)
           THEN LET body == LoopBody(sets, q.types, q.drive, q.i)
                IN  /\ body = <<>> => act = ReadAct
                    /\ sets' = IF body = <<>> THEN sets
                               ELSE Visitor(sets, q.types, body[1], act)
                    /\ q' = Advance(q, body)
                    /\ hist' = [hist EXCEPT
                          !.examined = Append(@, GetEntity(drv, q.i)),
                          !.probed = Probes(sets, q.types, q.drive, q.i),
                          !.seen = IF body = <<>> THEN @
                                   ELSE Seen(sets, q.types, body[1]),
                          !.written = IF act.kind = "write"
                                      THEN [T \in Types |->
                                              IF \E j \in act.W : q.types[j] = T
                                              THEN [@[T] EXCEPT ![body[1].entity] = act.v]
                                              ELSE @[T]]
                                      ELSE @]
           ELSE /\ act = ReadAct
                /\ q' = [q EXCEPT !.pc = "done"]
                /\ UNCHANGED <<sets, hist>>
    /\ UNCHANGED <<nextEntity, last, created, destroyed, ops>>

(* ------------------------- SparseSet properties ------------------------ *)
\* the storage the SparseSet properties are stated on
TheSet == sets["transforms"]

\* the value stored for a present entity: *Get(entity)
ValueOf(s, entity) == GetData(s, Get(s, entity))

\* the live part of the dense arrays
LiveDense(s) == SubSeq(s.dense, 1, s.count)

LiveData(s) == SubSeq(s.data, 1, s.count)

SparseSetInvariant(s) ==
    /\ \A e \in 0..(MAX_ENTITIES - 1) :
          s.sparse[e] # INVALID_INDEX =>
              s.sparse[e] < s.count /\ s.dense[s.sparse[e] + 1] = e
    /\ \A i \in 0..(s.count - 1) :
          /\ s.dense[i + 1] \in 0..(MAX_ENTITIES - 1)
          /\ s.sparse[s.dense[i + 1]] = i
    /\ s.count <= s.capacity

\* C1: in every state reached by Add, Remove and Clear on one SparseSet,
\* every valid sparse entry points below count at a dense slot holding its
\* entity, every dense slot below count is pointed at by its entity's sparse
\* entry, and count <= capacity.
C1_SparseDenseInvariant == SparseSetInvariant(TheSet)

\* C1 witness: the storage grew twice, lost entities again and a new entity
\* was appended next to stale slots
C1_Witness ==
    /\ last.op = "Add" /\ ~last.had /\ last.entity < MAX_ENTITIES
    /\ TheSet.capacity > InitialCapacity
    /\ TheSet.count = 2
    /\ last.cnt = 1

\* C3: immediately after Add(e, v) with 1 <= e < MAX_ENTITIES, Has(e) is
\* true and Get(e) points at v, whether e was absent or present before.
C3_AddRoundTrip ==
    [][\A e \in 1..(MAX_ENTITIES - 1), v \in Values :
          DoAdd("Transform", e, v) =>
              /\ Has(TheSet', e)
              /\ Get(TheSet', e) # NullPtr
              /\ ValueOf(TheSet', e) = v]_vars

\* C3 witness: Add has overwritten an entity that was already present,
\* while another entity is stored next to it
C3_Witness ==
    /\ last.op = "Add" /\ last.had /\ last.entity >= 1
    /\ TheSet.count >= 2
    /\ ValueOf(TheSet, last.entity) = last.value
    /\ \E e2 \in 0..(MAX_ENTITIES - 1) :
          Has(TheSet, e2) /\ ValueOf(TheSet, e2) # last.value

\* C4: after Remove(e), Has(e) is false and every other entity that was
\* present is still present with the value it had.
C4_RemovalIsolation ==
    [][\A e \in EntityArgs :
          DoRemove("Transform", e) =>
              /\ ~Has(TheSet', e)
              /\ \A e2 \in 0..(MAX_ENTITIES - 1) \ {e} :
                    Has(TheSet, e2) =>
                        /\ Has(TheSet', e2)
                        /\ ValueOf(TheSet', e2) = ValueOf(TheSet, e2)]_vars

\* C4 witness: a present entity that was not the last dense element was
\* removed, so the last element was moved, and the survivors hold
\* different values
C4_Witness ==
    /\ last.op = "Remove" /\ last.had
    /\ last.idx < last.cnt - 1
    /\ TheSet.count = last.cnt - 1
    /\ \E e1, e2 \in 0..(MAX_ENTITIES - 1) :
          /\ Has(TheSet, e1) /\ Has(TheSet, e2)
          /\ ValueOf(TheSet, e1) # ValueOf(TheSet, e2)

\* the dense sequence seq of n live elements after the element at 0-based
\* position idx is removed by moving the last element into its place
SwapRemoved(seq, n, idx) ==
    [i \in 1..(n - 1) |-> IF i = idx + 1 THEN seq[n] ELSE seq[i]]

\* C5: Remove(e) of a present entity at dense index idx leaves the old
\* dense sequence with the last element (entity and value) moved into
\* position idx and the last position dropped; count decreases by 1.
C5_SwapRemoval ==
    [][\A e \in EntityArgs :
          (DoRemove("Transform", e) /\ Has(TheSet, e)) =>
              LET n == TheSet.count
                  idx == TheSet.sparse[e]
              IN  /\ TheSet'.count = n - 1
                  /\ LiveDense(TheSet') = SwapRemoved(TheSet.dense, n, idx)
                  /\ LiveData(TheSet') = SwapRemoved(TheSet.data, n, idx)]_vars

\* C5 witness: three entities were stored and the middle one was removed
\* (the 5,3,9 / Remove(3) case), leaving two
C5_Witness ==
    /\ last.op = "Remove" /\ last.had
    /\ last.cnt = 3 /\ last.idx = 1
    /\ TheSet.count = 2
    /\ LiveDense(TheSet)[1] # last.entity /\ LiveDense(TheSet)[2] # last.entity

\* C12: an entity id e >= MAX_ENTITIES is absorbed by every storage
\* operation: Add(e, v) and Remove(e) leave sparse, dense, data, count and
\* capacity as they were, Has(e) is false and Get(e) is the null pointer;
\* no sparse slot is touched for e (sparse has no slot e to evaluate).
C12_OutOfRangeAbsorbed ==
    [][\A e \in {x \in EntityArgs : x >= MAX_ENTITIES} :
          /\ ~Has(TheSet', e)
          /\ Get(TheSet', e) = NullPtr
          /\ (\E v \in Values : DoAdd("Transform", e, v)) => TheSet' = TheSet
          /\ DoRemove("Transform", e) => TheSet' = TheSet]_vars

\* C12 witness: Add was called with an out-of-range id on a storage that
\* holds entities and has a free slot
C12_Witness ==
    /\ last.op = "Add" /\ last.entity >= MAX_ENTITIES
    /\ ~last.had
    /\ TheSet.count >= 1 /\ TheSet.count < TheSet.capacity
    /\ TheSet.count = last.cnt

\* C13: when Add of a new entity meets count = capacity and grows the
\* arrays, every entity present before is afterwards at the same dense
\* index with the same value, and the new entity and its value are at index
\* old count.
C13_GrowthPreservesData ==
    [][\A e \in 0..(MAX_ENTITIES - 1), v \in Values :
          (/\ ~Has(TheSet, e) /\ TheSet.count = TheSet.capacity
           /\ DoAdd("Transform", e, v)) =>
              LET n == TheSet.count
              IN  /\ TheSet'.capacity > TheSet.capacity
                  /\ TheSet'.count = n + 1
                  /\ \A i \in 0..(n - 1) :
                        /\ GetEntity(TheSet', i) = GetEntity(TheSet, i)
                        /\ GetData(TheSet', i) = GetData(TheSet, i)
                        /\ Get(TheSet', GetEntity(TheSet, i)) = i
                  /\ GetEntity(TheSet', n) = e
                  /\ GetData(TheSet', n) = v
                  /\ Get(TheSet', e) = n]_vars

\* C13 witness: the Add that found the storage full at the first capacity
\* doubled it and appended behind entities holding different values
C13_Witness ==
    /\ last.op = "Add" /\ ~last.had /\ last.entity < MAX_ENTITIES
    /\ last.cnt = InitialCapacity
    /\ TheSet.capacity = 2 * InitialCapacity
    /\ TheSet.count = InitialCapacity + 1
    /\ GetData(TheSet, 0) # GetData(TheSet, 1)

\* C19: Add(e, v) on an entity already present changes nothing but the
\* value at e's dense index: count, capacity, sparse, dense and every other
\* value stay, and the arrays do not grow even when count = capacity.
C19_OverwriteInPlace ==
    [][\A e \in 0..(MAX_ENTITIES - 1), v \in Values :
          (Has(TheSet, e) /\ DoAdd("Transform", e, v)) =>
              /\ TheSet' = [TheSet EXCEPT !.data[TheSet.sparse[e] + 1] = v]
              /\ TheSet'.capacity = TheSet.capacity
              /\ Len(TheSet'.data) = Len(TheSet.data)]_vars

\* C19 witness: a full storage (count = capacity) of two entities had the
\* value of one of them overwritten
C19_Witness ==
    /\ last.op = "Add" /\ last.had
    /\ last.cnt = TheSet.capacity /\ TheSet.count = last.cnt
    /\ TheSet.count >= 2
    /\ ValueOf(TheSet, last.entity) = last.value
    /\ \E e2 \in 0..(MAX_ENTITIES - 1) :
          Has(TheSet, e2) /\ ValueOf(TheSet, e2) # last.value

\* C17: GetEntity(index) and GetData(index) called with index < 0 or
\* index >= Count() hand back no dense slot: neither a stale slot below
\* capacity nor anything beyond capacity.  (last.had: the call returned the
\* content of a slot; last.cnt: Count() at the call.)
C17_DefensiveAccessors ==
    (last.op \in {"GetEntity", "GetData"}
        /\ (last.idx < 0 \/ last.idx >= last.cnt)) => ~last.had

\* C18: when Add of a new entity needs Grow and the new entity array or the
\* new value array cannot be allocated, the call fails (the allocation
\* throws) and sparse, dense, data, count and capacity are exactly as
\* before the call.
C18_AllocationFailure ==
    [][\A e \in 0..(MAX_ENTITIES - 1), v \in Values, okDense, okData \in BOOLEAN :
          (/\ ~(okDense /\ okData)
           /\ ~Has(TheSet, e) /\ TheSet.count >= TheSet.capacity
           /\ DoTryAdd("Transform", e, v, okDense, okData)) =>
              /\ TheSet' = TheSet
              /\ last'.op \in {"AddThrewDense", "AddThrewData"}
              /\ ~Has(TheSet', e)]_vars

\* C18 witness: the value array could not be allocated when a full storage
\* of two entities with different values had to grow
C18_Witness ==
    /\ last.op = "AddThrewData" /\ ~last.had
    /\ last.cnt = InitialCapacity
    /\ TheSet.count = InitialCapacity /\ TheSet.capacity = InitialCapacity
    /\ GetData(TheSet, 0) # GetData(TheSet, 1)
    /\ ~Has(TheSet, last.entity)

\* C21: Clear() sets count to 0, sets sparse[e] to INVALID_INDEX for every
\* entity that was present, so that Has(e) is false for every e, and keeps
\* capacity (and the arrays); an Add of a new entity to the emptied storage
\* lands at position 0 and the invariant holds.
C21_Clear ==
    [][/\ DoClear("Transform") =>
             /\ TheSet'.count = 0
             /\ \A e \in 0..(MAX_ENTITIES - 1) :
                   /\ Has(TheSet, e) => TheSet'.sparse[e] = INVALID_INDEX
                   /\ ~Has(TheSet', e)
             /\ TheSet'.capacity = TheSet.capacity
             /\ TheSet'.dense = TheSet.dense /\ TheSet'.data = TheSet.data
             /\ SparseSetInvariant(TheSet')
       /\ \A e \in 0..(MAX_ENTITIES - 1), v \in Values :
             (last.op = "Clear" /\ DoAdd("Transform", e, v)) =>
                 /\ Get(TheSet', e) = 0
                 /\ GetEntity(TheSet', 0) = e /\ GetData(TheSet', 0) = v
                 /\ TheSet'.count = 1
                 /\ TheSet'.capacity = TheSet.capacity \/ TheSet.capacity = 0
                 /\ SparseSetInvariant(TheSet')]_vars

\* C21 witness: a storage that had grown and held MAX_ENTITIES entities was
\* cleared
C21_Witness ==
    /\ last.op = "Clear" /\ last.cnt = MAX_ENTITIES
    /\ TheSet.count = 0 /\ TheSet.capacity = 2 * InitialCapacity
    /\ \A e \in 0..(MAX_ENTITIES - 1) : TheSet.sparse[e] = INVALID_INDEX

\* C27: for an entity e absent from a storage, Add(e, v) followed by
\* Remove(e) gives back the sparse array, the count, the dense order and
\* every value as they were (capacity may have grown); Remove(e) of an
\* absent e, a second Remove(e) included, changes nothing.
C27_AddRemoveRoundTrip ==
    [][/\ \A e \in 0..(MAX_ENTITIES - 1), v \in Values :
             ~Has(TheSet', e) =>
                 LET r == Remove(Add(TheSet', e, v), e)
                 IN  /\ r.sparse = TheSet'.sparse
                     /\ r.count = TheSet'.count
                     /\ LiveDense(r) = LiveDense(TheSet')
                     /\ LiveData(r) = LiveData(TheSet')
                     /\ r.capacity >= TheSet'.capacity
                     /\ Remove(r, e) = r
       /\ \A e \in EntityArgs :
             (~Has(TheSet, e) /\ DoRemove("Transform", e)) => TheSet' = TheSet]_vars

\* C27 witness: the entity Add had appended last to a full storage of
\* other entities was removed again
C27_Witness ==
    /\ last.op = "Remove" /\ last.had
    /\ last.idx = last.cnt - 1 /\ last.cnt = InitialCapacity + 1
    /\ TheSet.count = InitialCapacity
    /\ TheSet.capacity = 2 * InitialCapacity
    /\ TheSet.sparse[last.entity] = INVALID_INDEX

\* C29: capacity changes only in an Add of a valid entity that is not
\* present, made when count = capacity, and then it goes from 0 to the
\* first capacity or doubles; so capacity is 0 or the first capacity times a
\* power of two and never shrinks, and Remove and Clear leave it alone.
C29_GrowthPolicy ==
    [][/\ TheSet'.capacity # TheSet.capacity =>
             /\ \E e \in 0..(MAX_ENTITIES - 1), v \in Values :
                   /\ ~Has(TheSet, e) /\ TheSet.count = TheSet.capacity
                   /\ DoAdd("Transform", e, v)
             /\ TheSet'.capacity = IF TheSet.capacity = 0 THEN InitialCapacity
                                   ELSE 2 * TheSet.capacity
       /\ TheSet'.capacity >= TheSet.capacity
       /\ \/ TheSet'.capacity = 0
          \/ \E k \in 0..MAX_ENTITIES : TheSet'.capacity = InitialCapacity * 2^k
       /\ Len(TheSet'.dense) = TheSet'.capacity
       /\ Len(TheSet'.data) = TheSet'.capacity]_vars

\* C29 witness: a storage that doubled its capacity lost all its entities
\* by Remove and kept the doubled capacity
C29_Witness ==
    /\ last.op = "Remove" /\ last.had
    /\ TheSet.count = 0
    /\ TheSet.capacity = 2 * InitialCapacity

\* every subscript Add, Remove, Get, Has (on the entity) and Clear would
\* evaluate on storage s
AllAccesses(s, entity) ==
    AddAccesses(s, entity) \cup RemoveAccesses(s, entity)
        \cup GetAccesses(s, entity) \cup HasAccesses(s, entity)
        \cup ClearAccesses(s)

\* C28: no storage operation, on any entity value, evaluates a subscript of
\* dense, data (or of the arrays Grow builds) at an index >= the array's
\* capacity, nor a subscript of sparse at an index >= MAX_ENTITIES; Has on
\* a storage of capacity 0 does not read dense.
C28_SubscriptsInBounds ==
    \A entity \in EntityArgs :
        /\ \A a \in AllAccesses(TheSet, entity) :
              a.index >= 0 /\ a.index < a.size
        /\ TheSet.capacity = 0 =>
              \A a \in HasAccesses(TheSet, entity) : a.arr # "dense"

\* C28 witness: Add has filled the storage to its first capacity, so that
\* the next Add of a new entity goes through Grow, while one sparse entry
\* still holds INVALID_INDEX
C28_Witness ==
    /\ last.op = "Add" /\ ~last.had /\ last.entity < MAX_ENTITIES
    /\ TheSet.count = InitialCapacity /\ TheSet.capacity = InitialCapacity
    /\ \E e \in 0..(MAX_ENTITIES - 1) : TheSet.sparse[e] = INVALID_INDEX
    /\ \E e \in 0..(MAX_ENTITIES - 1) :
          Acc("newDense", InitialCapacity - 1, 2 * InitialCapacity)
              \in AddAccesses(TheSet, e)

(* --------------------------- World properties -------------------------- *)
\* C2: the null entity is permanently absent: HasX(0) is false for every
\* component kind in every reachable state, i.e. no AddX(0, v) has stored
\* anything, also when 0 came out of an exhausted CreateEntity.
C2_NullEntityAbsent ==
    \A T \in Types : ~HasX(T, NULL_ENTITY)

\* C8: after DestroyEntity(e), HasX(e) is false for each of the seven
\* component kinds, the kinds e never had included.
C8_DestroyAll ==
    [][\A e \in EntityArgs :
          DoDestroyEntity(e) =>
              \A T \in Types : ~Has(sets'[StorageOf(T)], e)]_vars

\* C8 witness: DestroyEntity ran on an entity that held two kinds and
\* lacked the other five
C8_Witness ==
    /\ last.op = "DestroyEntity" /\ last.had /\ last.cnt = 2
    /\ \A T \in Types : ~HasX(T, last.entity)

\* C9: on a fresh World the first MAX_ENTITIES - 1 calls of CreateEntity
\* return pairwise distinct non-null entities; call number MAX_ENTITIES and
\* every later call return 0 and leave the counter where it is.
C9_OverflowBoundary ==
    /\ \A k \in 1..Len(created) :
          IF k <= MAX_ENTITIES - 1
          THEN /\ created[k] # NULL_ENTITY
               /\ \A j \in 1..(k - 1) : created[j] # created[k]
          ELSE created[k] = NULL_ENTITY
    /\ Len(created) >= MAX_ENTITIES - 1 => nextEntity = MAX_ENTITIES

\* C9 witness: CreateEntity was called more than MAX_ENTITIES times and the
\* last two calls both returned the null entity
C9_Witness ==
    /\ Len(created) > MAX_ENTITIES
    /\ created[MAX_ENTITIES] = NULL_ENTITY
    /\ created[Len(created)] = NULL_ENTITY
    /\ last.op = "CreateEntity"

\* the ids the successful CreateEntity calls returned, in call order
Issued == SelectSeq(created, LAMBDA r : r # NULL_ENTITY)

\* C10: the k-th successful CreateEntity returns k and no id is returned
\* twice, whatever AddX / RemoveX / DestroyEntity calls are interleaved.
C10_IdsIncreaseNeverReused ==
    /\ \A k \in 1..Len(Issued) : Issued[k] = k
    /\ \A j, k \in 1..Len(Issued) : j # k => Issued[j] # Issued[k]
    /\ nextEntity = Len(Issued) + 1

\* C10 witness: an issued id was destroyed and CreateEntity then issued a
\* further id
C10_Witness ==
    /\ last.op = "CreateEntity" /\ last.entity # NULL_ENTITY
    /\ \E e \in destroyed : e >= 1 /\ e < last.entity

\* C26: AddX and RemoveX change only the storage of kind X, GetX and HasX
\* read only that storage, no two kinds share a storage, and
\* GetSparseSet<X>, which Query uses, is the storage AddX stores into.
C26_KindsIsolated ==
    [][/\ \A T \in Types, e \in EntityArgs :
             (\/ last'.op = "Add" /\ last'.entity = e
                    /\ \E v \in Values : DoAdd(T, e, v)
              \/ last'.op = "Remove" /\ last'.entity = e
                    /\ DoRemove(T, e)) =>
                 /\ \A f \in Fields \ {StorageOf(T)} : sets'[f] = sets[f]
                 /\ \A T2 \in Types \ {T}, e2 \in EntityArgs :
                       /\ HasX(T2, e2)' = HasX(T2, e2)
                       /\ GetX(T2, e2)' = GetX(T2, e2)
       /\ \A T \in Types :
             /\ GetSparseSet(T) = StorageOf(T)
             /\ \A e \in EntityArgs :
                   /\ HasX(T, e)' = Has(sets'[GetSparseSet(T)], e)
                   /\ GetX(T, e)' = Get(sets'[GetSparseSet(T)], e)
       /\ \A T, T2 \in Types : T # T2 => StorageOf(T) # StorageOf(T2)]_vars

\* C26 witness: AddX stored a component of one kind for an entity that
\* holds a component of another kind with a different value
C26_Witness ==
    /\ last.op = "Add" /\ ~last.had /\ last.entity < MAX_ENTITIES
    /\ \E T, T2 \in Types :
          /\ T # T2
          /\ HasX(T, last.entity) /\ HasX(T2, last.entity)
          /\ GetData(sets[GetSparseSet(T)], GetX(T, last.entity)) = last.value
          /\ GetData(sets[GetSparseSet(T2)], GetX(T2, last.entity)) # last.value
          /\ Count(sets[GetSparseSet(T)]) = 1 /\ Count(sets[GetSparseSet(T2)]) = 1

\* C25: every storage's count is at most MAX_ENTITIES, so INVALID_INDEX is
\* never below count, and a Query never visits more than MAX_ENTITIES
\* entities; after the spawn loop (one pass per id up to MAX_ENTITIES, the
\* exhausted CreateEntity included) Query<Transform> visits at most
\* MAX_ENTITIES entities.
C25_CountBounded ==
    /\ \A f \in Fields :
          /\ sets[f].count <= MAX_ENTITIES
          /\ ~(INVALID_INDEX < sets[f].count)
    /\ Len(q.visits) <= MAX_ENTITIES
    /\ q.i <= MAX_ENTITIES

\* C25 witness: the spawn loop made more than MAX_ENTITIES passes, the
\* passes on the null entity included, and Query<Transform> then visited
\* exactly MAX_ENTITIES entities
C25_Witness ==
    /\ Len(created) > MAX_ENTITIES
    /\ q.pc = "done" /\ q.types = <<"Transform">>
    /\ Len(q.visits) = MAX_ENTITIES
    /\ sets["physics"].count = MAX_ENTITIES

\* C11: an issued entity on which DestroyEntity was called stays Gone under
\* every later sequence of calls: CreateEntity does not return it again and
\* no storage holds a component for it.
C11_GoneStaysGone ==
    \A e \in destroyed :
        (e >= 1 /\ e < nextEntity) =>
            /\ Cardinality({k \in 1..Len(created) : created[k] = e}) = 1
            /\ \A T \in Types : ~HasX(T, e)

(* --------------------------- Query properties -------------------------- *)
\* the entities func was called with, in call order
VisitedSeq == [i \in 1..Len(q.visits) |-> q.visits[i].entity]

\* how often func was called with entity e
TimesVisited(e) == Cardinality({i \in 1..Len(q.visits) : q.visits[i].entity = e})

\* the storage of the j-th declared type of the running query
QSet(j) == sets[GetSparseSet(q.types[j])]

\* C6: Query<K1,K2> with a visitor that adds and removes nothing calls it
\* exactly once for each entity present in both storages and for no other
\* entity, whichever storage has fewer members.
C6_JoinTwo ==
    (q.pc = "done" /\ Len(q.types) = 2) =>
        /\ \A e \in 0..(MAX_ENTITIES - 1) :
              TimesVisited(e) =
                  IF Has(QSet(1), e) /\ Has(QSet(2), e) THEN 1 ELSE 0
        /\ \A i \in 1..Len(q.visits) :
              q.visits[i].entity \in 0..(MAX_ENTITIES - 1)

\* C6 witness: the second storage was the smaller one and drove the loop,
\* an entity was visited, and the first storage holds an entity the second
\* lacks
C6_Witness ==
    /\ q.pc = "done" /\ Len(q.types) = 2 /\ q.drive = 2
    /\ Len(q.visits) >= 1
    /\ \E e \in 0..(MAX_ENTITIES - 1) : Has(QSet(1), e) /\ ~Has(QSet(2), e)

\* C7: Query<K1..Kn>, n = 3..6, visits exactly the entities present in all
\* n storages, each once, in the order of K1's dense array; an entity
\* lacking one of K2..Kn is never visited.
C7_JoinMany ==
    (q.pc = "done" /\ Len(q.types) >= 3) =>
        /\ VisitedSeq =
              SelectSeq(LiveDense(QSet(1)),
                        LAMBDA e : \A j \in 2..Len(q.types) : Has(QSet(j), e))
        /\ \A e \in 0..(MAX_ENTITIES - 1) :
              TimesVisited(e) =
                  IF \A j \in 1..Len(q.types) : Has(QSet(j), e) THEN 1 ELSE 0

\* C7 witness: a six-type query ran over K1 holding two entities, the
\* largest of the six storages; one entity was visited, the other was not
C7_Witness ==
    /\ q.pc = "done" /\ Len(q.types) = 6
    /\ QSet(1).count = 2
    /\ \E j \in 2..6 : QSet(j).count = 1
    /\ Len(q.visits) = 1

\* C22: Query<K1,K2> runs over the storage with the smaller Count(), K1
\* when the counts are equal, visits the matching entities in that
\* storage's dense order, and hands the visitor its references in declared
\* order, the K1 component first, whichever storage drives.
C22_DrivingSet ==
    (q.pc = "done" /\ Len(q.types) = 2) =>
        /\ q.drive = IF Count(QSet(1)) <= Count(QSet(2)) THEN 1 ELSE 2
        /\ Count(QSet(q.drive)) <= Count(QSet(3 - q.drive))
        /\ VisitedSeq =
              SelectSeq(LiveDense(QSet(q.drive)),
                        LAMBDA e : Has(QSet(3 - q.drive), e))
        /\ \A k \in 1..Len(q.visits) :
              /\ q.visits[k].refs[1] = Get(QSet(1), q.visits[k].entity)
              /\ q.visits[k].refs[2] = Get(QSet(2), q.visits[k].entity)

\* C22 witness: both storages hold the same number of entities, so K1 drove
\* the loop; two entities were visited, not in the order of their ids, and
\* one of them sits at different positions in the two storages
C22_Witness ==
    /\ q.pc = "done" /\ Len(q.types) = 2 /\ q.drive = 1
    /\ Count(QSet(1)) = Count(QSet(2)) /\ Count(QSet(1)) = 2
    /\ Len(q.visits) = 2
    /\ q.visits[1].entity > q.visits[2].entity
    /\ q.visits[1].refs[1] # q.visits[1].refs[2]

\* C24: with a visitor that removes components of the driving type (and
\* adds nothing), every pass of the loop reads the dense and data arrays at a
\* position below the driving set's count at that moment, because the loop
\* condition calls Count() again in every iteration, and func is called at
\* most once for any entity.
C24_RemovingDrivingKind ==
    [][/\ (q.pc = "loop" /\ hist'.examined # hist.examined) =>
              /\ q.i >= 0
              /\ q.i < Count(DrivingSet(sets, q.types, q.drive))
              /\ hist'.examined =
                    Append(hist.examined,
                           LiveDense(DrivingSet(sets, q.types, q.drive))[q.i + 1])
       /\ \A e \in 0..(MAX_ENTITIES - 1) : TimesVisited(e)' <= 1]_vars

\* a finished query that began with every entity in the driving set, whose
\* visitor removed the component of the entity it was called on first: the
\* loop made fewer passes than the set had members, and an entity that is
\* still in the set was never visited
C24_Witness ==
    /\ q.pc = "done"
    /\ Len(hist.atCall) = MAX_ENTITIES
    /\ Len(hist.examined) < Len(hist.atCall)
    /\ Count(DrivingSet(sets, q.types, q.drive)) < Len(hist.atCall)
    /\ ~Has(DrivingSet(sets, q.types, q.drive), hist.examined[1])
    /\ \E e \in 0..(MAX_ENTITIES - 1) :
          /\ Has(DrivingSet(sets, q.types, q.drive), e)
          /\ TimesVisited(e) = 0

\* C23: in a Query over three to six types each pass probes K2..Kn in
\* declared order and stops at the first probe that reports absent: a probe
\* that did not find the entity is the last probe of its pass.
C23_ShortCircuit ==
    (q.pc \in {"loop", "done"} /\ Len(q.types) >= 3) =>
        /\ \A k \in 1..Len(hist.probed) :
              k > 1 => hist.probed[k].j = hist.probed[k - 1].j + 1
        /\ \A k \in 1..(Len(hist.probed) - 1) : hist.probed[k].found

\* C20: Query<K1> calls func once for every entry of K1's storage, in dense
\* order i = 0..Count()-1, with the entity dense[i] and a reference to the
\* value at the same position i; nothing is filtered out.
C20_QueryOne ==
    (q.pc = "done" /\ Len(q.types) = 1) =>
        /\ Len(q.visits) = Count(QSet(1))
        /\ \A i \in 0..(Count(QSet(1)) - 1) :
              /\ q.visits[i + 1].entity = GetEntity(QSet(1), i)
              /\ q.visits[i + 1].refs = <<i>>

\* C20 witness: Query<K1> finished over a full storage whose dense order
\* is not the order of the ids
C20_Witness ==
    /\ q.pc = "done" /\ Len(q.types) = 1
    /\ Count(QSet(1)) = MAX_ENTITIES
    /\ Len(q.visits) = MAX_ENTITIES
    /\ GetEntity(QSet(1), 0) > GetEntity(QSet(1), 1)

\* C14: the references a visitor receives alias live storage.  A value the
\* visitor stores through its reference to entity e's K component is what
\* GetK(e) points at from then on, after Query has returned included, and
\* it is what the visitor finds behind its reference when a later Query
\* visits e; for the driving and the probed type, in both branches of
\* Query<K1,K2>.
C14_ReferencesAlias ==
    [][/\ \A T \in Types, e \in 0..(MAX_ENTITIES - 1) :
             hist'.written[T][e] # NoValue =>
                 /\ Get(sets'[StorageOf(T)], e) # NullPtr
                 /\ ValueOf(sets'[StorageOf(T)], e) = hist'.written[T][e]
       /\ (q.pc = "loop" /\ Len(q'.visits) > Len(q.visits)) =>
             LET visit == q'.visits[Len(q'.visits)]
             IN  \A j \in 1..Len(q.types) :
                     hist.written[q.types[j]][visit.entity] # NoValue =>
                         hist'.seen[j] = hist.written[q.types[j]][visit.entity]]_vars

\* C14 witness: a Query that ran in its second branch (the second storage
\* drove the loop) has returned; its latest visit found, behind both
\* references, values a visitor of an earlier Query had stored, while an
\* entity never written to is stored next to it
C14_Witness ==
    /\ q.pc = "done" /\ Len(q.types) = 2 /\ q.drive = 2
    /\ hist.seen = <<"B", "B">>
    /\ \E e \in 0..(MAX_ENTITIES - 1) :
          /\ hist.written[q.types[1]][e] = "B" /\ hist.written[q.types[2]][e] = "B"
          /\ GetData(sets[StorageOf(q.types[1])], GetX(q.types[1], e)) = "B"
    /\ \E e \in 0..(MAX_ENTITIES - 1) :
          /\ HasX(q.types[1], e)
          /\ GetData(sets[StorageOf(q.types[1])], GetX(q.types[1], e)) = "A"

\* C15: when the visitor adds and removes components of types other than
\* the driving one only, the loop reads the positions of the driving
\* storage's dense array as it was when Query was entered, each once and in
\* dense order, no entity is visited twice, and when Query returns every
\* storage satisfies the sparse-set invariant.
C15_MutatingOtherKinds ==
    /\ q.pc \in {"loop", "done"} =>
          /\ q.i <= Len(hist.atCall)
          /\ hist.examined = SubSeq(hist.atCall, 1, q.i)
          /\ \A e \in 0..(MAX_ENTITIES - 1) : TimesVisited(e) <= 1
    /\ q.pc = "done" =>
          /\ hist.examined = hist.atCall
          /\ \A f \in Fields : SparseSetInvariant(sets[f])

\* C15 witness: Query<K1,K2> ran over K1 holding every entity and has
\* returned; the visitor removed so much of K2 that K2 is now the smaller
\* storage, an entity that was visited included
C15_Witness ==
    /\ q.pc = "done" /\ Len(q.types) = 2 /\ q.drive = 1
    /\ Len(hist.atCall) = MAX_ENTITIES
    /\ Count(QSet(1)) = MAX_ENTITIES
    /\ Count(QSet(2)) < MAX_ENTITIES - 1
    /\ \E k \in 1..Len(q.visits) : ~Has(QSet(2), q.visits[k].entity)

\* C16: a Query that was entered returns, and by then its loop has read
\* exactly as many positions of the driving storage as that storage's
\* Count() was when Query was entered.
C16_QueryRunsToCompletion ==
    (q.pc = "loop") ~>
        (/\ q.pc = "done"
         /\ q.i = Len(hist.atCall)
         /\ Len(hist.examined) = Len(hist.atCall))

\* C16 witness: a Query over a driving storage of MAX_ENTITIES entities has
\* returned after MAX_ENTITIES passes, in some of which the visitor was not
\* called
C16_Witness ==
    /\ q.pc = "done"
    /\ Len(hist.atCall) = MAX_ENTITIES
    /\ q.i = MAX_ENTITIES /\ Len(hist.examined) = MAX_ENTITIES
    /\ Len(q.visits) < MAX_ENTITIES /\ Len(q.visits) >= 1

(* --------------------------- specifications ---------------------------- *)
\* the World driven by a caller: at most MaxOps component calls and
\* MaxCreates CreateEntity calls, in any order
CallCreateEntity ==
    Len(created) < MaxCreates /\ DoCreateEntity /\ UNCHANGED <<ops, sys, hist>>

CallAdd ==
    \E T \in Types, entity \in EntityArgs, component \in Values :
        ops < MaxOps /\ DoAdd(T, entity, component) /\ ops' = ops + 1 /\ UNCHANGED <<sys, hist>>

CallRemove ==
    \E T \in Types, entity \in EntityArgs :
        ops < MaxOps /\ DoRemove(T, entity) /\ ops' = ops + 1 /\ UNCHANGED <<sys, hist>>

CallDestroyEntity ==
    \E entity \in EntityArgs :
        ops < MaxOps /\ DoDestroyEntity(entity) /\ ops' = ops + 1 /\ UNCHANGED <<sys, hist>>

CallSpawnBox ==
    \E t \in Values, p \in Values :
        /\ Len(created) < MaxCreates /\ ops < MaxOps
        /\ DoSpawnBox(t, p) /\ ops' = ops + 1 /\ UNCHANGED <<sys, hist>>

Next ==
    \/ CallCreateEntity
    \/ CallSpawnBox
    \/ CallAdd
    \/ CallRemove
    \/ CallDestroyEntity

Spec == Init /\ [][Next]_vars

\* one SparseSet<T> (the Transform storage) under any sequence of Add,
\* Remove and Clear
SetAdd ==
    \E entity \in EntityArgs, component \in Values :
        DoAdd("Transform", entity, component) /\ UNCHANGED <<ops, sys, hist>>

SetRemove ==
    \E entity \in EntityArgs : DoRemove("Transform", entity) /\ UNCHANGED <<ops, sys, hist>>

SetClear ==
    DoClear("Transform") /\ UNCHANGED <<ops, sys, hist>>

NextSet ==
    \/ SetAdd
    \/ SetRemove
    \/ SetClear

SpecSet == Init /\ [][NextSet]_vars

\* one SparseSet<T> whose positional accessors are called with any index from
\* one below the first slot to one past the last allocated slot
IndexArgs == -1..TheSet.capacity

SetGetEntity ==
    \E index \in IndexArgs :
        DoGetEntity("Transform", index) /\ UNCHANGED <<ops, sys, hist>>

SetGetData ==
    \E index \in IndexArgs :
        DoGetData("Transform", index) /\ UNCHANGED <<ops, sys, hist>>

NextAccess ==
    \/ SetAdd
    \/ SetRemove
    \/ SetClear
    \/ SetGetEntity
    \/ SetGetData

SpecAccess == Init /\ [][NextAccess]_vars

\* one SparseSet<T> on a machine whose allocations can fail
SetTryAdd ==
    \E entity \in EntityArgs, component \in Values, okDense, okData \in BOOLEAN :
        DoTryAdd("Transform", entity, component, okDense, okData)
            /\ UNCHANGED <<ops, sys, hist>>

NextAlloc ==
    \/ SetTryAdd
    \/ SetRemove
    \/ SetClear

SpecAlloc == Init /\ [][NextAlloc]_vars

\* a system that works on the type list sys: it fills the storages of its
\* types by AddX calls and runs Query<sys...> on what they hold.  One or
\* two storages are populated with every entity below MAX_ENTITIES, three
\* storages with the entities 0, 1, 2 and four to six storages with the
\* entities 0, 1
PopCount == <<MAX_ENTITIES, MAX_ENTITIES, 3, 2, 2, 2>>

PopEntities(types) == 0..(PopCount[Len(types)] - 1)

Populate ==
    \E j \in 1..Len(sys), entity \in PopEntities(sys) :
        AddX(sys[j], entity, "A") /\ last' = NoCall /\ UNCHANGED <<ops, sys, hist>>

CallQuery ==
    QueryBegin(sys) /\ UNCHANGED <<sys, hist>>

RunQuery ==
    QueryStep /\ UNCHANGED <<sys, hist>>

InitQuery ==
    /\ nextEntity = 1
    /\ sets = [f \in Fields |-> NewSparseSet]
    /\ last = NoCall
    /\ created = <<>>
    /\ destroyed = {}
    /\ ops = 0
    /\ q = IdleQ
    /\ sys \in QueryTypes
    /\ hist = NoHist

NextQuery ==
    \/ Populate
    \/ CallQuery
    \/ RunQuery

SpecQuery == InitQuery /\ [][NextQuery]_vars

\* main: the spawn loop, any number of passes up to one past the first
\* exhausted CreateEntity, then the frame loop's Query<Transform, Physics>
\* and Query<Transform>; AddTransform may also be called on any entity
SpawnPass ==
    \E t \in Values, p \in Values :
        /\ Len(created) < MaxCreates
        /\ DoSpawnBox(t, p) /\ UNCHANGED <<ops, sys, hist>>

SpawnAdd ==
    \E entity \in EntityArgs :
        DoAdd("Transform", entity, "A") /\ UNCHANGED <<ops, sys, hist>>

FrameQuery ==
    \E types \in {<<"Transform", "Physics">>, <<"Transform">>} :
        QueryBegin(types) /\ UNCHANGED <<sys, hist>>

NextSpawn ==
    \/ SpawnPass
    \/ SpawnAdd
    \/ FrameQuery
    \/ RunQuery

SpecSpawn == Init /\ [][NextSpawn]_vars

\* a system on two types whose visitor assigns to the components it is
\* handed, as the integration loop of main does: the storages are filled
\* first (with any of the entities below MAX_ENTITIES), then Query is run
\* any number of times
VisitTypes == {<<"Transform", "Physics">>}

VisitEntities(types) ==
    0..((IF Len(types) = 2 THEN MAX_ENTITIES ELSE MAX_ENTITIES - 1) - 1)

PopulateOnce ==
    \E j \in 1..Len(sys), entity \in VisitEntities(sys) :
        /\ q.pc = "idle"
        /\ AddX(sys[j], entity, "A") /\ last' = NoCall
        /\ UNCHANGED <<ops, sys, hist>>

CallVisit ==
    VisitBegin(sys) /\ UNCHANGED sys

RunWrite ==
    \E act \in {ReadAct} \cup WriteActs(sys) : VisitStep(act) /\ UNCHANGED sys

InitVisit ==
    /\ nextEntity = 1
    /\ sets = [f \in Fields |-> NewSparseSet]
    /\ last = NoCall
    /\ created = <<>>
    /\ destroyed = {}
    /\ ops = 0
    /\ q = IdleQ
    /\ sys \in VisitTypes
    /\ hist = NoHist

NextVisit ==
    \/ PopulateOnce
    \/ CallVisit
    \/ RunWrite

SpecVisit == InitVisit /\ [][NextVisit]_vars

\* a system on any of the type lists whose visitor only reads, with the
\* Get calls of every pass noted
RunRead ==
    VisitStep(ReadAct) /\ UNCHANGED sys

NextProbe ==
    \/ PopulateOnce
    \/ CallVisit
    \/ RunRead

SpecProbe == InitQuery /\ [][NextProbe]_vars

\* systems on one and on two types whose visitor removes components of the
\* driving type
DropTypes == {<<"Transform">>, <<"Transform", "Physics">>}

InitDrop ==
    /\ nextEntity = 1
    /\ sets = [f \in Fields |-> NewSparseSet]
    /\ last = NoCall
    /\ created = <<>>
    /\ destroyed = {}
    /\ ops = 0
    /\ q = IdleQ
    /\ sys \in DropTypes
    /\ hist = NoHist

RunDrop ==
    /\ q.pc = "loop"
    /\ \E act \in {ReadAct} \cup DropActs(q.types, q.drive) :
          VisitStep(act) /\ UNCHANGED sys

NextDrop ==
    \/ PopulateOnce
    \/ CallVisit
    \/ RunDrop

SpecDrop == InitDrop /\ [][NextDrop]_vars

\* systems on two and on three types with a visitor that adds and removes
\* components of the types other than the driving one; the three storages
\* of the larger system are filled with all but the last entity
MutateTypes == {<<"Transform", "Physics">>, <<"Transform", "Physics", "Sprite">>}

InitMutate ==
    /\ nextEntity = 1
    /\ sets = [f \in Fields |-> NewSparseSet]
    /\ last = NoCall
    /\ created = <<>>
    /\ destroyed = {}
    /\ ops = 0
    /\ q = IdleQ
    /\ sys \in MutateTypes
    /\ hist = NoHist

RunMutate ==
    /\ q.pc = "loop"
    /\ \E act \in {ReadAct} \cup MutateActs(q.types, q.drive) :
          VisitStep(act) /\ UNCHANGED sys

NextMutate ==
    \/ PopulateOnce
    \/ CallVisit
    \/ RunMutate

SpecMutate == InitMutate /\ [][NextMutate]_vars

\* Query is a plain loop in the caller's thread: once entered it keeps
\* running
SpecMutateFair == SpecMutate /\ WF_vars(RunMutate)

====
